---- MODULE Spec2Model ----
(***************************************************************************)
(* FDR r-values (multipy/rvalue.py): the statistic function                *)
(* _fdr_rvalue_f, the fixed-point residual _fdr_rvalue_f_aux and the       *)
(* per-feature solver loop fdr_rvalue.                                     *)
(*                                                                         *)
(* Real numbers are exact rationals <<numerator, denominator>> with a      *)
(* positive denominator, in lowest terms.  Features are numbered 1..n      *)
(* (the code's index i is feature i+1 here).                               *)
(***************************************************************************)
EXTENDS Integers, Sequences, FiniteSets, TLC

(* ------------------------------ bounds -------------------------------- *)
\* largest number of features n = len(p1) = len(p2) of the enumerated inputs
MaxN == 2
\* the solver's trial points are the multiples of 1/XDen in [-1/2, 3/2]
XDen == 2

(* --------------------------- exact rationals --------------------------- *)
RECURSIVE GCD(_, _)
GCD(a, b) == IF b = 0 THEN a ELSE GCD(b, a % b)

Abs(a) == IF a < 0 THEN -a ELSE a

\* a/b in lowest terms, b # 0
Rat(a, b) ==
    LET s == IF b < 0 THEN -1 ELSE 1
        g == GCD(Abs(a), Abs(b))
    IN  <<(s * a) \div g, (s * b) \div g>>

Zero == <<0, 1>>
One == <<1, 1>>
\* numpy's inf, the result of a float division by zero on an ndarray
Inf == <<1, 0>>

RInt(k) == <<k, 1>>
RAdd(a, b) == Rat(a[1] * b[2] + b[1] * a[2], a[2] * b[2])
RSub(a, b) == Rat(a[1] * b[2] - b[1] * a[2], a[2] * b[2])
RMul(a, b) == Rat(a[1] * b[1], a[2] * b[2])
\* numpy division: v / inf = 0, v / 0 = inf (v > 0)
RDiv(a, b) ==
    IF b[2] = 0 THEN Zero
    ELSE IF b[1] = 0 THEN Inf
    ELSE Rat(a[1] * b[2], a[2] * b[1])
RLeq(a, b) == a[1] * b[2] <= b[1] * a[2]
RLess(a, b) == a[1] * b[2] < b[1] * a[2]
RMax(a, b) == IF RLeq(a, b) THEN b ELSE a
RMin(a, b) == IF RLeq(a, b) THEN a ELSE b
InUnit(a) == RLeq(Zero, a) /\ RLeq(a, One)

\* a vector held as a sequence of its (evaluated) entries
Vec(f) == f \o <<>>

(* ------------------------------- state --------------------------------- *)
VARIABLES
    p1, p2,     \* the p-values of the primary and of the follow-up study
    m,          \* the number of tests of the primary study
    c2, l00,    \* the tuning parameters
    tol,        \* the shared tolerance, <<>> before line 79
    rvalue,     \* the output vector being filled
    i,          \* the loop index of line 83 (1-based)
    pc,         \* "start", "loop", "root", "done", "raised"; "f" in SpecF
    xcur,       \* the x of the last evaluation of _fdr_rvalue_f, with
    fx,         \*   the vector it returned
    calls,      \* calls[k]: how often root() was invoked for feature k
    args,       \* args[k]: the <<x0, tol>> root() was invoked with, or <<>>
    how         \* how[k]: "none", "shortcut", "converged", "gaveup"

vars == <<p1, p2, m, c2, l00, tol, rvalue, i, pc, xcur, fx, calls, args, how>>

(* ------------------------------ inputs --------------------------------- *)
\* p-values of the enumerated inputs
PVals == {Zero, <<1, 4>>, One}
\* c2 in (0, 1) and l00 in [0, 1), the defaults 0.5 and 0.8 among them
C2Vals == {<<1, 2>>, <<3, 4>>}
L00Vals == {Zero, <<4, 5>>}
\* m >= n
MVals(n) == {n, n + 1}

\* the n = 3 scenario: p1 = [0.001, 0.01, 0.2], p2 = [0.001, 0.02, 0.5],
\* m = 1000, c2 = 0.5, l00 = 0.8
Scenario ==
    [p1 |-> << <<1, 1000>>, <<1, 100>>, <<1, 5>> >>,
     p2 |-> << <<1, 1000>>, <<1, 50>>, <<1, 2>> >>,
     m |-> 1000, c2 |-> <<1, 2>>, l00 |-> <<4, 5>>]

\* one feature with an extremely small p-value, 1e-8, beside an ordinary one
Tiny == <<1, 100000000>>
TinyInput ==
    [p1 |-> <<Tiny, <<1, 4>> >>, p2 |-> << <<1, 4>>, <<1, 4>> >>,
     m |-> 2, c2 |-> <<1, 2>>, l00 |-> Zero]

\* one feature with strong evidence in both studies beside one with none
MixedInput ==
    [p1 |-> <<Zero, One>>, p2 |-> << <<1, 8>>, One>>,
     m |-> 2, c2 |-> <<1, 2>>, l00 |-> Zero]

Inputs ==
    {Scenario, TinyInput, MixedInput} \cup
    UNION {
        {[p1 |-> v1, p2 |-> v2, m |-> mm, c2 |-> cc, l00 |-> ll] :
            v1 \in [1..n -> PVals], v2 \in [1..n -> PVals],
            mm \in MVals(n), cc \in C2Vals, ll \in L00Vals}
        : n \in 1..MaxN}

(* ---------------- _fdr_rvalue_f: the statistic function ----------------- *)
\* R1 = len(p1)
R1 == Len(p1)

\* mutant: the sign inside the bracket flipped, 1 - l00*(1 + c2*x)
C1DenPlus(x) == RSub(One, RMul(l00, RAdd(One, RMul(c2, x))))

\* the denominator of c1, 1 - l00*(1 - c2*x)
C1Den(x) == RSub(One, RMul(l00, RSub(One, RMul(c2, x))))

\* mutant: the threshold x dropped from c1, (1 - c2) / (1 - l00)
c1_without_x(x) == RDiv(RSub(One, c2), RSub(One, l00))

\* c1 = (1 - c2) / (1 - l00*(1 - c2*x))
c1(x) == RDiv(RSub(One, c2), C1Den(x))

\* mutant: np.min in place of np.max
raw_min(x) ==
    LET cc == c1(x)
    IN  Vec([k \in 1..R1 |->
            RMin(RDiv(RMul(RInt(m), p1[k]), cc),
                 RDiv(RMul(RInt(R1), p2[k]), c2))])

\* np.max([m*p1 / c1, R1*p2 / c2], axis=0)
raw(x) ==
    LET cc == c1(x)
    IN  Vec([k \in 1..R1 |->
            RMax(RDiv(RMul(RInt(m), p1[k]), cc),
                 RDiv(RMul(RInt(R1), p2[k]), c2))])

\* mutant: method='min', ties take the smallest rank
rankdata_min(v) ==
    Vec([k \in 1..Len(v) |->
            1 + Cardinality({j \in 1..Len(v) : RLess(v[j], v[k])})])

\* scipy.stats.rankdata(v, method='max'): 1-based, ties take the largest rank
rankdata(v) ==
    Vec([k \in 1..Len(v) |->
            Cardinality({j \in 1..Len(v) : RLeq(v[j], v[k])})])

\* e / rankdata(e, method='max')
e(x) ==
    LET rw == raw(x)
        rk == rankdata(rw)
    IN  Vec([k \in 1..R1 |-> RDiv(rw[k], RInt(rk[k]))])

\* the permutations np.argsort may return: any order that sorts v ascending
IsPerm(s, n) == Len(s) = n /\ \A k \in 1..n : \E j \in 1..n : s[j] = k
ArgSorts(v) ==
    {s \in [1..Len(v) -> 1..Len(v)] :
        /\ IsPerm(s, Len(v))
        /\ \A a, b \in 1..Len(v) : a < b => RLeq(v[s[a]], v[s[b]])}

\* np.argsort: the sorting permutation that keeps ties in index order
argsort(v) ==
    LET pos == Vec([k \in 1..Len(v) |->
                    1 + Cardinality({j \in 1..Len(v) :
                        RLess(v[j], v[k]) \/ (v[j] = v[k] /\ j < k)})])
    IN  Vec([a \in 1..Len(v) |-> CHOOSE k \in 1..Len(v) : pos[k] = a])

\* s[::-1]
Reverse(s) == Vec([k \in 1..Len(s) |-> s[Len(s) + 1 - k]])

\* np.minimum.accumulate
RECURSIVE RunMin(_, _)
RunMin(s, k) == IF k = 1 THEN s[1] ELSE RMin(RunMin(s, k - 1), s[k])
minimum_accumulate(s) == Vec([k \in 1..Len(s) |-> RunMin(s, k)])

\* lines 43-46 with the descending order oe given:
\* oer = argsort(oe); r = minimum.accumulate(e[oe])[oer]
StepDown(ev, oe) ==
    LET oer == argsort(Vec([k \in 1..Len(oe) |-> RInt(oe[k])]))
        acc == minimum_accumulate(Vec([k \in 1..Len(oe) |-> ev[oe[k]]]))
    IN  Vec([k \in 1..Len(ev) |-> acc[oer[k]]])

\* np.min([r, ones], axis=0)
Clip(v) == Vec([k \in 1..Len(v) |-> RMin(v[k], One)])

fdr_rvalue_f(x) ==
    LET ev == e(x)
    IN  Clip(StepDown(ev, Reverse(argsort(ev))))

\* _fdr_rvalue_f_aux(x, i, ...) = _fdr_rvalue_f(x, ...)[i] - x
fdr_rvalue_f_aux(x, k) == RSub(fdr_rvalue_f(x)[k], x)

(* --------------------------- fdr_rvalue -------------------------------- *)
\* the 0.0001 of line 79
TolCap == <<1, 10000>>
\* the initial guess x0 = 0.5 of line 87
X0 == <<1, 2>>
None == <<>>

RECURSIVE MinOf(_, _)
MinOf(s, k) == IF k = 1 THEN s[1] ELSE RMin(MinOf(s, k - 1), s[k])

\* mutant: the follow-up p-values left out of the minimum
TolP1Only == RMin(MinOf(p1, Len(p1)), TolCap)

\* np.min([np.min([p1, p2]), 0.0001])
Tol == RMin(MinOf(p1 \o p2, Len(p1) + Len(p2)), TolCap)

\* the points root() may evaluate the residual at, and stop at
XTrial ==
    {X0} \cup
    {Rat(k, XDen) : k \in (0 - (XDen \div 2))..(XDen + (XDen \div 2))}

HasInput ==
    \E inp \in Inputs :
        /\ p1 = inp.p1
        /\ p2 = inp.p2
        /\ m = inp.m
        /\ c2 = inp.c2
        /\ l00 = inp.l00

Init ==
    /\ HasInput
    /\ tol = None
    /\ rvalue = <<>>
    /\ i = 0
    /\ pc = "start"
    /\ xcur = None
    /\ fx = <<>>
    /\ calls = <<>>
    /\ args = <<>>
    /\ how = <<>>

\* lines 79-82: the tolerance, once, and the zero-filled output
ComputeTol ==
    /\ pc = "start"
    /\ tol' = Tol
    /\ rvalue' = [k \in 1..R1 |-> Zero]
    /\ calls' = [k \in 1..R1 |-> 0]
    /\ args' = [k \in 1..R1 |-> None]
    /\ how' = [k \in 1..R1 |-> "none"]
    /\ i' = 1
    /\ pc' = "loop"
    /\ UNCHANGED <<p1, p2, m, c2, l00, xcur, fx>>

\* mutant: > 0 in place of >= 0
BoundaryStrict(k) == RLess(Zero, fdr_rvalue_f_aux(One, k))

\* the test of line 84: _fdr_rvalue_f_aux(1, i, ...) >= 0
Boundary(k) == RLeq(Zero, fdr_rvalue_f_aux(One, k))

\* mutant: the assignment rvalue[i] = 1 left out, the entry stays 0
ShortcutUnset ==
    /\ pc = "loop"
    /\ i <= R1
    /\ Boundary(i)
    /\ how' = [how EXCEPT ![i] = "shortcut"]
    /\ i' = i + 1
    /\ UNCHANGED <<p1, p2, m, c2, l00, tol, pc, xcur, fx, calls, args, rvalue>>

\* lines 84-85: rvalue[i] = 1
Shortcut ==
    /\ pc = "loop"
    /\ i <= R1
    /\ Boundary(i)
    /\ rvalue' = [rvalue EXCEPT ![i] = One]
    /\ how' = [how EXCEPT ![i] = "shortcut"]
    /\ i' = i + 1
    /\ UNCHANGED <<p1, p2, m, c2, l00, tol, pc, xcur, fx, calls, args>>

\* what line 87-88 passes to root(): x0 = 0.5 and tol = tol
RootArgs == <<X0, tol>>

\* lines 86-88: root(_fdr_rvalue_f_aux, x0=0.5, args=(i, ...), tol=tol) is
\* called
InvokeRoot ==
    /\ pc = "loop"
    /\ i <= R1
    /\ ~Boundary(i)
    /\ calls' = [calls EXCEPT ![i] = @ + 1]
    /\ args' = [args EXCEPT ![i] = RootArgs]
    /\ pc' = "root"
    /\ UNCHANGED <<p1, p2, m, c2, l00, tol, rvalue, i, how, xcur, fx>>

\* mutant: the loop is left at the first search that did not converge
StoreSolBreak(sol, outcome) ==
    /\ rvalue' = [rvalue EXCEPT ![i] = sol]
    /\ how' = [how EXCEPT ![i] = outcome]
    /\ i' = IF outcome = "gaveup" THEN R1 + 1 ELSE i + 1
    /\ pc' = "loop"
    /\ UNCHANGED <<p1, p2, m, c2, l00, tol, calls, args, xcur, fx>>

\* lines 88-89: sol = root(...)['x']; rvalue[i] = sol.  The success flag of
\* root()'s result is not read.
StoreSol(sol, outcome) ==
    /\ rvalue' = [rvalue EXCEPT ![i] = sol]
    /\ how' = [how EXCEPT ![i] = outcome]
    /\ i' = i + 1
    /\ pc' = "loop"
    /\ UNCHANGED <<p1, p2, m, c2, l00, tol, calls, args, xcur, fx>>

\* root() returns its result: the point t it stopped at, a zero of the
\* residual when it converged and the last point tried when it did not
RootReturns ==
    /\ pc = "root"
    /\ \E t \in XTrial :
        StoreSol(t, IF fdr_rvalue_f_aux(t, i) = Zero
                    THEN "converged" ELSE "gaveup")

\* root() raises: nothing in fdr_rvalue catches it
RootRaised ==
    /\ pc = "root"
    /\ pc' = "raised"
    /\ UNCHANGED <<p1, p2, m, c2, l00, tol, rvalue, i, xcur, fx, calls, args, how>>

\* line 91: return rvalue
Return ==
    /\ pc = "loop"
    /\ i > R1
    /\ pc' = "done"
    /\ UNCHANGED <<p1, p2, m, c2, l00, tol, rvalue, i, xcur, fx, calls, args, how>>

Next ==
    \/ ComputeTol
    \/ Shortcut
    \/ InvokeRoot
    \/ RootReturns
    \/ RootRaised
    \/ Return

Spec == Init /\ [][Next]_vars

(* ------------- the statistic function alone, as a pure function -------- *)
InitF ==
    /\ HasInput
    /\ tol = None
    /\ rvalue = <<>>
    /\ i = 0
    /\ pc = "f"
    /\ xcur = None
    /\ fx = <<>>
    /\ calls = <<>>
    /\ args = <<>>
    /\ how = <<>>

\* one call _fdr_rvalue_f(x, m, p1, p2, c2, l00)
Evaluate ==
    /\ pc = "f"
    /\ \E t \in XTrial :
        /\ xcur' = t
        /\ fx' = fdr_rvalue_f(t)
    /\ UNCHANGED <<p1, p2, m, c2, l00, tol, rvalue, i, pc, calls, args, how>>

NextF == Evaluate

SpecF == InitF /\ [][NextF]_vars

(* ------------------------------ claims --------------------------------- *)
Features == 1..R1
Returned == pc = "done"
\* g(1, k) >= 0, stated on the statistic itself: e(1)[k] - 1 >= 0
G1NonNeg(k) == RLeq(One, fdr_rvalue_f(One)[k])
IsScenario ==
    /\ p1 = Scenario.p1
    /\ p2 = Scenario.p2
    /\ m = Scenario.m
    /\ c2 = Scenario.c2
    /\ l00 = Scenario.l00
IsTinyInput ==
    /\ p1 = TinyInput.p1
    /\ p2 = TinyInput.p2
    /\ m = TinyInput.m
    /\ c2 = TinyInput.c2
    /\ l00 = TinyInput.l00

AllP2One == \A k \in Features : p2[k] = One
C2_AllOnes ==
    AllP2One =>
        /\ pc \notin {"root", "raised"}
        /\ pc \in {"loop", "done"} => \A k \in Features : calls[k] = 0
        /\ Returned =>
            \A k \in Features : rvalue[k] = One /\ how[k] = "shortcut"

C2_Witness ==
    /\ AllP2One
    /\ Returned
    /\ R1 >= 2
    /\ \E k \in Features : p1[k] = Zero

\* C3, as stated: in the n = 3 scenario rvalue[0] is strictly below 1 and
\* strictly below rvalue[2], and rvalue[2] is close to 1.
CloseToOne(v) == RLeq(<<9, 10>>, v) /\ RLeq(v, One)
C3_SmallFirst ==
    (IsScenario /\ Returned) =>
        /\ RLess(rvalue[1], One)
        /\ RLess(rvalue[1], rvalue[3])
        /\ CloseToOne(rvalue[3])

\* C3, amended: in the n = 3 scenario every feature takes the shortcut and
\* the result is [1, 1, 1]: rvalue[2] is 1, and rvalue[0] is 1 as well,
\* neither small nor below rvalue[2].
C3_AllOnes ==
    IsScenario =>
        /\ pc \notin {"root", "raised"}
        /\ Returned =>
            /\ rvalue = <<One, One, One>>
            /\ \A k \in Features : how[k] = "shortcut" /\ calls[k] = 0

C3_Witness == IsScenario /\ Returned /\ CloseToOne(rvalue[3])

SomeSearchFailed ==
    \/ pc = "raised"
    \/ pc = "done" /\ \E k \in Features : how[k] = "gaveup"
C5_OthersDelivered ==
    SomeSearchFailed =>
        /\ Returned
        /\ \A k \in Features : how[k] # "none"

\* C5, amended: a root search that does not converge (and returns) for
\* feature i leaves every other feature computed and delivered, each by its
\* own branch alone, a 1 if g(1,j) >= 0 and else the point its own search
\* returned; a root search that raises ends the call, no r-value is
\* delivered and the features after i are never computed.
C5_NonConvergedIsolated ==
    /\ Returned =>
        LET f1 == fdr_rvalue_f(One)
        IN  \A k \in Features :
                /\ how[k] # "none"
                /\ IF RLeq(One, f1[k])
                   THEN how[k] = "shortcut" /\ rvalue[k] = One
                   ELSE how[k] \in {"converged", "gaveup"}
                /\ how[k] = "converged" =>
                    fdr_rvalue_f(rvalue[k])[k] = rvalue[k]
    /\ pc = "raised" =>
        \A k \in Features : k >= i => (how[k] = "none" /\ rvalue[k] = Zero)

C5_Witness ==
    /\ Returned
    /\ R1 >= 2
    /\ how[1] = "gaveup"
    /\ how[2] = "converged"

\* C6: the tolerance is min(smallest entry of p1 and p2, 1e-4), one value for
\* the whole call: it is at most 1e-4 and at most every p-value, every root
\* search is passed that same value, and a single p-value below 1e-4 puts
\* the tolerance of every feature's search below 1e-4.
TolSet == pc \in {"loop", "root", "done", "raised"}
C6_SharedTol ==
    TolSet =>
        /\ RLeq(tol, TolCap)
        /\ \A k \in Features : RLeq(tol, p1[k]) /\ RLeq(tol, p2[k])
        /\ \/ tol = TolCap
           \/ \E k \in Features : tol = p1[k] \/ tol = p2[k]
        /\ \A k \in Features : calls[k] > 0 => args[k][2] = tol
        /\ (\E k \in Features : RLess(p1[k], TolCap) \/ RLess(p2[k], TolCap))
            => \A k \in Features : calls[k] > 0 => RLess(args[k][2], TolCap)

C6_Witness ==
    /\ IsTinyInput
    /\ Returned
    /\ calls[1] = 1
    /\ calls[2] = 1
    /\ args[2][2] = Tiny
    /\ RLess(TolCap, p1[2])
    /\ RLess(TolCap, p2[2])

\* C7: for x in [0,1] the statistic function is total: the denominator
\* 1 - l00*(1 - c2*x) is strictly positive, c1, c2 and every rank are
\* non-zero, and the result has length n with every entry in [0,1].
Evaluated == pc = "f" /\ xcur # None
C7_Total ==
    (Evaluated /\ InUnit(xcur)) =>
        /\ RLess(Zero, C1Den(xcur))
        /\ c1(xcur) # Inf
        /\ RLess(Zero, c1(xcur))
        /\ RLess(Zero, c2)
        /\ \A k \in Features : rankdata(raw(xcur))[k] >= 1
        /\ Len(fx) = R1
        /\ \A k \in Features : InUnit(fx[k])

C7_Witness ==
    /\ Evaluated
    /\ RLess(Zero, xcur)
    /\ RLess(xcur, One)
    /\ RLess(Zero, l00)
    /\ \E k \in Features : RLess(Zero, fx[k]) /\ RLess(fx[k], One)

\* C8: per feature, g(1,i) >= 0 gives rvalue[i] = 1 with no call of the root
\* finder; otherwise the root finder is called exactly once, with x0 = 0.5
\* and the tolerance tol, and rvalue[i] is the point it returned.
\* the features the loop is through with, all of them once i is past n
Processed(k) == pc = "loop" /\ k < i
C8_BranchPerFeature ==
    pc \in {"loop", "root", "raised"} =>
    LET f1 == fdr_rvalue_f(One)
    IN  /\ \A k \in Features : Processed(k) =>
            IF RLeq(One, f1[k])
            THEN rvalue[k] = One /\ calls[k] = 0 /\ how[k] = "shortcut"
            ELSE /\ calls[k] = 1
                 /\ args[k] = <<X0, tol>>
                 /\ how[k] \in {"converged", "gaveup"}
                 /\ rvalue[k] \in XTrial
        /\ pc \in {"root", "raised"} =>
            (~RLeq(One, f1[i]) /\ calls[i] = 1 /\ args[i] = <<X0, tol>>)

C8_Witness ==
    /\ pc = "loop"
    /\ i > R1
    /\ \E a, b \in Features :
        /\ G1NonNeg(a)
        /\ how[a] = "shortcut"
        /\ calls[a] = 0
        /\ ~G1NonNeg(b)
        /\ how[b] = "converged"
        /\ calls[b] = 1
        /\ RLess(Zero, rvalue[b])

\* C9: the step-down makes the result monotone in the evidence: for every x
\* and every two features, raw[i] <= raw[j] implies r[i] <= r[j].
C9_MonotoneInRaw ==
    Evaluated =>
        \A a, b \in Features :
            RLeq(raw(xcur)[a], raw(xcur)[b]) => RLeq(fx[a], fx[b])

\* C10: the result is r[i] = min(raw[i] / k_i, 1) with k_i the number of
\* features j with raw[j] <= raw[i]; the sort, running minimum and inverse
\* permutation change no value, whichever order argsort gives to ties, and
\* features with equal raw values get equal results.
RankOf(rw, k) == Cardinality({j \in 1..Len(rw) : RLeq(rw[j], rw[k])})
C10_RankNormalised ==
    Evaluated =>
        LET rw == raw(xcur)
            ev == Vec([k \in Features |-> RDiv(rw[k], RInt(RankOf(rw, k)))])
        IN  /\ \A k \in Features : fx[k] = RMin(ev[k], One)
            /\ \A oe \in ArgSorts(e(xcur)) :
                StepDown(e(xcur), Reverse(oe)) = ev
            /\ \A a, b \in Features : rw[a] = rw[b] => fx[a] = fx[b]

C10_Witness ==
    /\ Evaluated
    /\ \E a, b \in Features :
        /\ a # b
        /\ raw(xcur)[a] = raw(xcur)[b]
        /\ RLess(Zero, fx[a])
        /\ RLess(fx[a], One)
        /\ fx[a] # raw(xcur)[a]

====
